---- MODULE Spec2Model ----
(***************************************************************************)
(* A model of minimap-ts-rpc: the router core (RpcRouter.invoke), its HTTP *)
(* binding (HttpRpcRouter.handle), the client core (RpcClient.get) and the *)
(* example provider (fooProvider).                                         *)
(*                                                                         *)
(* JavaScript values are records tagged by t.  Every scalar payload is a   *)
(* string (a number is its decimal text), so that values of different      *)
(* types can be compared.                                                  *)
(***************************************************************************)
EXTENDS Naturals, Sequences, FiniteSets, TLC

VARIABLES providers, foo, call, http, client, lastSet, log, reqs

vars == <<providers, foo, call, http, client, lastSet, log, reqs>>

\* The records of the calls a client issued and of the requests a server has
\* in flight, kept by the specifications of the client alone and of
\* overlapping requests.
aux == <<log, reqs>>

----------------------------------------------------------------------------
(* JavaScript values *)

Undef == [t |-> "undefined"]

Null == [t |-> "null"]

Str(s) == [t |-> "string", v |-> s]

Num(s) == [t |-> "number", v |-> s]

Bool(s) == [t |-> "boolean", v |-> s]

Arr(elems) == [t |-> "array", e |-> elems]

\* A plain object: its own keys, in insertion order, and their values.
Obj(keys, vals) == [t |-> "object", k |-> keys, e |-> vals]

Fn(id) == [t |-> "function", v |-> id]

\* A BigInt, by its decimal digits: a value JSON.stringify refuses.
BigInt(s) == [t |-> "bigint", v |-> s]

\* An Error instance of class c (the chain RpcRoutingError < Error, TypeError <
\* Error, SyntaxError < Error), with its message and its cause.
Err(c, msg, cause) == [t |-> "error", c |-> c, v |-> msg, cause |-> cause]

RpcRoutingError(msg) == Err("RpcRoutingError", msg, Undef)

Fulfilled(x) == [t |-> "promise", s |-> "fulfilled", e |-> <<x>>]

Rejected(x) == [t |-> "promise", s |-> "rejected", e |-> <<x>>]

\* typeof x
TypeOf(x) ==
  CASE x.t \in {"undefined", "string", "number", "boolean", "bigint", "function"} -> x.t
    [] OTHER -> "object"

\* The truthiness test of `!x`.
ToBoolean(x) ==
  CASE x.t \in {"undefined", "null"} -> FALSE
    [] x.t = "string" -> x.v # ""
    [] x.t \in {"number", "bigint"} -> x.v \notin {"0", "NaN"}
    [] x.t = "boolean" -> x.v = "true"
    [] OTHER -> TRUE

RECURSIVE ToStr(_)
RECURSIVE Join(_)
\* Array.prototype.join(","): null and undefined elements give the empty text.
Join(elems) ==
  IF elems = <<>> THEN ""
  ELSE LET h == IF Head(elems).t \in {"undefined", "null"} THEN "" ELSE ToStr(Head(elems))
       IN  IF Len(elems) = 1 THEN h ELSE h \o "," \o Join(Tail(elems))

\* ToString(x), as a template literal `${x}` and a property key x compute it.
ToStr(x) ==
  CASE x.t = "undefined" -> "undefined"
    [] x.t = "null" -> "null"
    [] x.t \in {"string", "number", "boolean", "bigint"} -> x.v
    [] x.t = "array" -> Join(x.e)
    [] x.t = "function" -> "function " \o x.v \o "() { [native code] }"
    [] x.t = "error" -> (IF x.c = "RpcRoutingError" THEN "Error" ELSE x.c) \o ": " \o x.v
    [] x.t = "promise" -> "[object Promise]"
    [] OTHER -> "[object Object]"

\* The own property key of obj, or undefined.
OwnGet(obj, key) ==
  IF obj.t = "object" /\ \E i \in 1..Len(obj.k) : obj.k[i] = key
  THEN obj.e[CHOOSE i \in 1..Len(obj.k) : obj.k[i] = key]
  ELSE Undef

HasOwn(obj, key) == obj.t = "object" /\ \E i \in 1..Len(obj.k) : obj.k[i] = key

\* Properties every plain object inherits from Object.prototype (a sample).
ObjectPrototype == Obj(<<"toString">>, <<Fn("Object.prototype.toString")>>)

\* Properties every function inherits from Function.prototype (a sample).
FunctionPrototype ==
  Obj(<<"call", "toString">>,
      <<Fn("Function.prototype.call"), Fn("Function.prototype.toString")>>)

\* The name property of the built-in function id.
FnName(id) ==
  CASE id = "Function.prototype.call" -> "call"
    [] id \in {"Object.prototype.toString", "Function.prototype.toString"} -> "toString"
    [] OTHER -> id

\* obj[key]: the own property, else the one found on the prototype chain.
Get(obj, key) ==
  CASE obj.t = "object" ->
         IF HasOwn(obj, key) THEN OwnGet(obj, key) ELSE OwnGet(ObjectPrototype, key)
    [] obj.t = "function" ->
         IF key = "name" THEN Str(FnName(obj.v))
         ELSE IF key = "length" THEN Num("0")
         ELSE IF HasOwn(FunctionPrototype, key) THEN OwnGet(FunctionPrototype, key)
         ELSE OwnGet(ObjectPrototype, key)
    [] OTHER -> Undef

----------------------------------------------------------------------------
(* Procedures *)

Arg(args, i) == IF i <= Len(args) THEN args[i] ELSE Undef

\* The completion of a call: a returned value or a thrown one, and the value
\* of the example provider's variable after the call.
Return(x, f) == [k |-> "return", val |-> x, foo |-> f]

Throw(x, f) == [k |-> "throw", val |-> x, foo |-> f]

\* function getFoo(): string { return foo; }
getFoo(args, f) == Return(f, f)

\* A setFoo that returns its argument and leaves the variable as it was.
setFooNoAssign(args, f) == Return(Arg(args, 1), f)

\* function setFoo(_foo: string): string { foo = _foo; return foo; }
setFoo(args, f) == Return(Arg(args, 1), Arg(args, 1))

\* The class name Object.prototype.toString reports for `this`.
ClassTag(x) ==
  CASE x.t = "undefined" -> "Undefined"
    [] x.t = "null" -> "Null"
    [] x.t = "string" -> "String"
    [] x.t = "number" -> "Number"
    [] x.t = "boolean" -> "Boolean"
    [] x.t = "bigint" -> "BigInt"
    [] x.t = "array" -> "Array"
    [] x.t = "function" -> "Function"
    [] x.t = "error" -> "Error"
    [] x.t = "promise" -> "Promise"
    [] OTHER -> "Object"

\* A built-in function called with this = thisVal.
CallBuiltin(id, thisVal, args, f) ==
  CASE id = "Object.prototype.toString" ->
         Return(Str("[object " \o ClassTag(thisVal) \o "]"), f)
    [] id = "Function.prototype.toString" ->
         IF thisVal.t = "function" THEN Return(Str(ToStr(thisVal)), f)
         ELSE Throw(Err("TypeError", "Function.prototype.toString requires that 'this' be a Function", Undef), f)
    [] OTHER -> Throw(Err("TypeError", "not a function", Undef), f)

\* fn(...args) with this = thisVal: the procedures a provider table of the
\* model holds, and the built-in functions a lookup can reach.
Call(fn, thisVal, args, f) ==
  CASE fn.v = "getFoo" -> getFoo(args, f)
    [] fn.v = "setFoo" -> setFoo(args, f)
    [] fn.v = "collect" -> Return(Arr(args), f)                  \* (...a) => a
    [] fn.v = "echo" -> Return(Arg(args, 1), f)                  \* (x) => x
    [] fn.v = "nothing" -> Return(Undef, f)                      \* () => {}
    [] fn.v = "later" -> Return(Fulfilled(Arg(args, 1)), f)      \* async (x) => x
    [] fn.v = "fail" -> Throw(Err("Error", "boom", Undef), f)    \* throw new Error
    [] fn.v = "failCause" -> Throw(Err("Error", "boom", Str("why")), f)
    \* () => { throw new Error("boom", { cause: 1n }) }
    [] fn.v = "failBigCause" -> Throw(Err("Error", "boom", BigInt("1")), f)
    [] fn.v = "failRouting" -> Throw(RpcRoutingError("denied"), f)
    [] fn.v = "failString" -> Throw(Str("oops"), f)              \* throw "oops"
    [] fn.v = "reject" -> Return(Rejected(Err("Error", "late", Undef)), f)
    [] fn.v = "Function.prototype.call" ->
         IF thisVal.t = "function"
         THEN CallBuiltin(thisVal.v, Arg(args, 1), IF args = <<>> THEN <<>> ELSE Tail(args), f)
         ELSE Throw(Err("TypeError", "not a function", Undef), f)
    [] OTHER -> CallBuiltin(fn.v, thisVal, args, f)

\* The example provider of src/server/foo.ts.
fooProvider == Obj(<<"getFoo", "setFoo">>, <<Fn("getFoo"), Fn("setFoo")>>)

\* A provider with procedures of every outcome and with entries that are not
\* functions.
utilProvider ==
  Obj(<<"collect", "echo", "nothing", "later", "fail", "failCause", "failBigCause",
        "failRouting",
        "failString", "reject", "label", "empty", "zero", "one", "flag", "nul">>,
      <<Fn("collect"), Fn("echo"), Fn("nothing"), Fn("later"), Fn("fail"), Fn("failCause"),
        Fn("failBigCause"), Fn("failRouting"), Fn("failString"), Fn("reject"), Str("x"), Str(""),
        Num("0"), Num("1"), Bool("false"), Null>>)

\* new HttpRpcRouter<RpcAPI>({ foo: fooProvider })
RpcAPI == Obj(<<"foo">>, <<fooProvider>>)

Tables == {RpcAPI, Obj(<<"foo", "util">>, <<fooProvider, utilProvider>>)}

----------------------------------------------------------------------------
(* RpcRouter.invoke *)

\* The characters of a string of the model, as the spread of a string yields them.
CharsOf(s) ==
  CASE s = "" -> <<>>
    [] s = "ab" -> <<Str("a"), Str("b")>>
    [] OTHER -> <<Str(s)>>

\* Whether ...x can be evaluated: arrays and strings are iterable.
Iterable(x) == x.t \in {"array", "string"}

\* The argument list ...x passes.
Spread(x) == IF x.t = "array" THEN x.e ELSE CharsOf(x.v)

\* What one run of invoke's body did up to its await: thrown tells whether it
\* threw, val is the thrown value or the value it awaits, foo the provider's
\* variable afterwards, invoked the procedure calls made (each with its
\* arguments), reads the number of lookups on the provider table and on the
\* provider, origin the place the failure arose.
Ran(thrown, val, f, invoked, reads, origin) ==
  [thrown |-> thrown, val |-> val, foo |-> f, invoked |-> invoked,
   reads |-> reads, origin |-> origin]

InvalidRequest(provider, procedure, args) ==
  RpcRoutingError("Invalid request: provider=" \o ToStr(provider)
                  \o ", procedure=" \o ToStr(procedure) \o ", args=" \o ToStr(args))

ProviderNotFound(provider) ==
  RpcRoutingError("Provider with name " \o ToStr(provider) \o " not found")

ProcedureNotFound(provider, procedure) ==
  RpcRoutingError("Procedure " \o ToStr(procedure) \o " not found on provider "
                  \o ToStr(provider))

NotAFunction(provider, procedure) ==
  RpcRoutingError("Property " \o ToStr(procedure) \o " is not a function on provider "
                  \o ToStr(provider) \o " so it cannot be called")

\* CallProcedure with the argument list passed as one argument, not spread.
CallProcedureUnspread(providerInstance, procedure, args, f) ==
  LET fn == Get(providerInstance, ToStr(procedure))
      c == Call(fn, providerInstance, <<args>>, f)
  IN  Ran(c.k = "throw", c.val, c.foo, <<[fn |-> fn, args |-> <<args>>]>>, 4,
          IF c.k = "throw" THEN "procedure" ELSE "none")

\* return await providerInstance[procedure](...args), up to the await.
CallProcedure(providerInstance, procedure, args, f) ==
  IF ~Iterable(args)
  THEN Ran(TRUE, Err("TypeError", "Spread syntax requires ...iterable[Symbol.iterator] to be a function", Undef),
           f, <<>>, 4, "spread")
  ELSE LET fn == Get(providerInstance, ToStr(procedure))
           c == Call(fn, providerInstance, Spread(args), f)
       IN  Ran(c.k = "throw", c.val, c.foo, <<[fn |-> fn, args |-> Spread(args)]>>, 4,
               IF c.k = "throw" THEN "procedure" ELSE "none")

\* invoke without the test of args in its first check.
invokeNoArgsCheck(P, provider, procedure, args, f) ==
  IF ~ToBoolean(provider) \/ ~ToBoolean(procedure)
  THEN Ran(TRUE, InvalidRequest(provider, procedure, args), f, <<>>, 0, "validation")
  ELSE LET providerInstance == Get(P, ToStr(provider))
       IN  IF ~ToBoolean(providerInstance)
           THEN Ran(TRUE, ProviderNotFound(provider), f, <<>>, 1, "validation")
           ELSE IF ~ToBoolean(Get(providerInstance, ToStr(procedure)))
           THEN Ran(TRUE, ProcedureNotFound(provider, procedure), f, <<>>, 2, "validation")
           ELSE IF TypeOf(Get(providerInstance, ToStr(procedure))) # "function"
           THEN Ran(TRUE, NotAFunction(provider, procedure), f, <<>>, 3, "validation")
           ELSE CallProcedure(providerInstance, procedure, args, f)

\* The body of RpcRouter.invoke on the table P, up to its await.
invoke(P, provider, procedure, args, f) ==
  IF ~ToBoolean(provider) \/ ~ToBoolean(procedure) \/ ~ToBoolean(args)
  THEN Ran(TRUE, InvalidRequest(provider, procedure, args), f, <<>>, 0, "validation")
  ELSE LET providerInstance == Get(P, ToStr(provider))
       IN  IF ~ToBoolean(providerInstance)
           THEN Ran(TRUE, ProviderNotFound(provider), f, <<>>, 1, "validation")
           ELSE IF ~ToBoolean(Get(providerInstance, ToStr(procedure)))
           THEN Ran(TRUE, ProcedureNotFound(provider, procedure), f, <<>>, 2, "validation")
           ELSE IF TypeOf(Get(providerInstance, ToStr(procedure))) # "function"
           THEN Ran(TRUE, NotAFunction(provider, procedure), f, <<>>, 3, "validation")
           ELSE CallProcedure(providerInstance, procedure, args, f)

\* An await that takes a rejected promise for a value.
AwaitSwallow(x) == [k |-> "resolve", val |-> IF x.t = "promise" THEN x.e[1] ELSE x]

\* await x: the settlement of a promise, or x itself.
Await(x) ==
  IF x.t = "promise"
  THEN [k |-> IF x.s = "fulfilled" THEN "resolve" ELSE "reject", val |-> x.e[1]]
  ELSE [k |-> "resolve", val |-> x]

----------------------------------------------------------------------------
(* JSON *)

RECURSIVE ToJson(_)
RECURSIVE ToJsonElems(_)
RECURSIVE ToJsonKeys(_, _)
RECURSIVE ToJsonVals(_, _)
\* The elements of a serialized array: undefined and functions become null.
ToJsonElems(elems) ==
  IF elems = <<>> THEN <<>>
  ELSE <<IF Head(elems).t \in {"undefined", "function"} THEN Null ELSE ToJson(Head(elems))>>
       \o ToJsonElems(Tail(elems))

\* The keys of a serialized object: a key whose value is undefined or a
\* function is left out.
ToJsonKeys(keys, vals) ==
  IF keys = <<>> THEN <<>>
  ELSE (IF Head(vals).t \in {"undefined", "function"} THEN <<>> ELSE <<Head(keys)>>)
       \o ToJsonKeys(Tail(keys), Tail(vals))

ToJsonVals(keys, vals) ==
  IF keys = <<>> THEN <<>>
  ELSE (IF Head(vals).t \in {"undefined", "function"} THEN <<>> ELSE <<ToJson(Head(vals))>>)
       \o ToJsonVals(Tail(keys), Tail(vals))

\* The JSON document JSON.stringify writes for x: the value a parser reads back.
ToJson(x) ==
  CASE x.t = "array" -> Arr(ToJsonElems(x.e))
    [] x.t = "object" -> Obj(ToJsonKeys(x.k, x.e), ToJsonVals(x.k, x.e))
    [] x.t \in {"error", "promise"} -> Obj(<<>>, <<>>)      \* no enumerable own property
    [] x.t = "number" /\ x.v = "NaN" -> Null
    [] OTHER -> x

RECURSIVE HasBigInt(_)
\* Whether JSON.stringify meets a BigInt in x.
HasBigInt(x) ==
  CASE x.t = "bigint" -> TRUE
    [] x.t \in {"array", "object"} -> \E i \in 1..Len(x.e) : HasBigInt(x.e[i])
    [] OTHER -> FALSE

\* A JSON text, modelled by the document it denotes.
JsonText(doc) == [t |-> "jsontext", e |-> <<doc>>]

\* A text that is not JSON.
BadText == [t |-> "badtext"]

\* JSON.stringify(x): a text, undefined for undefined and for a function, or a
\* thrown TypeError.
JSONstringify(x) ==
  IF HasBigInt(x)
  THEN [k |-> "throw", val |-> Err("TypeError", "Do not know how to serialize a BigInt", Undef)]
  ELSE IF x.t \in {"undefined", "function"} THEN [k |-> "return", val |-> Undef]
  ELSE [k |-> "return", val |-> JsonText(ToJson(x))]

\* request.json() on a body: the parsed value, or a thrown SyntaxError for a
\* body that is empty or not JSON.
JSONparse(body) ==
  IF body.t = "jsontext" THEN [k |-> "return", val |-> body.e[1]]
  ELSE [k |-> "throw", val |-> Err("SyntaxError", "Unexpected end of JSON input", Undef)]

----------------------------------------------------------------------------
(* HttpRpcRouter.handle *)

\* e.name: RpcRoutingError sets no name of its own, so it reads Error's.
ErrName(e) == IF e.c = "RpcRoutingError" THEN "Error" ELSE e.c

\* e.stack: the error line and the frames under it.
ErrStack(e) == ErrName(e) \o ": " \o e.v \o "\n    at <anonymous>"

\* new Response(body, { status }) as the promise of handle resolves with it, or
\* the rejection of that promise when building the body throws.
Response(status, s) ==
  IF s.k = "throw" THEN [k |-> "reject", val |-> s.val]
  ELSE [k |-> "response", status |-> status, body |-> s.val]

\* The catch block of handle, on the thrown value e.
Catch(e) ==
  IF e.t = "error" /\ e.c = "RpcRoutingError"
  THEN Response(400, JSONstringify(Obj(<<"name", "error">>, <<Str(ErrName(e)), Str(e.v)>>)))
  ELSE IF e.t = "error"
  THEN Response(500, JSONstringify(Obj(<<"name", "error", "stack", "cause">>,
                                       <<Str(ErrName(e)), Str(e.v), Str(ErrStack(e)), e.cause>>)))
  ELSE Response(500, JSONstringify(Obj(<<"error">>,
                  <<Str("Unknown Internal Server error of type: " \o TypeOf(e))>>)))

\* return new Response(JSON.stringify(result), { status: 200 }), inside the try.
Success(result) ==
  LET s == JSONstringify(result)
  IN  IF s.k = "throw" THEN Catch(s.val) ELSE Response(200, s)

\* const { provider, method, args } = <parsed body>: the three values read, or
\* the TypeError of destructuring null.
Destructure(parsed) ==
  IF parsed.t \in {"null", "undefined"}
  THEN [k |-> "throw",
        val |-> Err("TypeError", "Cannot destructure property 'provider' of 'null'", Undef)]
  ELSE [k |-> "return", provider |-> Get(parsed, "provider"),
        method |-> Get(parsed, "method"), args |-> Get(parsed, "args")]

----------------------------------------------------------------------------
(* RpcClient.get *)

\* A callable that passes the accessed property where the provider belongs.
getSwapped(provider, method, args) ==
  [provider |-> method, procedure |-> provider, args |-> args]

\* A callable that passes the property name of the first call the client made
\* in place of its own.
getSticky(provider, method, args) ==
  [provider |-> provider,
   procedure |-> IF log = <<>> THEN method ELSE log[1].method,
   args |-> args]

\* The arguments of this.handle(provider, method, args) that the callable
\* get(provider)[method] passes when it is called with args.
get(provider, method, args) == [provider |-> provider, procedure |-> method, args |-> args]

\* return this.handle(...): the callable returns the promise of handle itself.
Forward(outcome) == outcome

----------------------------------------------------------------------------
(* HttpRpcClient.handle *)

\* The body of the POST request: handle(request) declares one parameter, which
\* receives the first of the arguments (provider, procedure, args) the
\* callable passes, and sends JSON.stringify(request).
RequestBody(h) ==
  LET request == Str(h.provider)
  IN  JSONstringify(request).val

\* return result.json(): the parsed body of the response, whatever its status,
\* or the SyntaxError of a body that is empty or not JSON.  A handler whose
\* promise rejected is answered by the server with a text that is not JSON.
ResultJson(outcome) ==
  LET parsed == JSONparse(IF outcome.k = "response" THEN outcome.body ELSE BadText)
  IN  [k |-> IF parsed.k = "throw" THEN "reject" ELSE "resolve", val |-> parsed.val]

----------------------------------------------------------------------------
(* Inputs *)

\* The longest argument list a call of the model passes.
MaxArgs == 2

ArgAtoms == {Str("a"), Num("7")}

ArgLists == UNION {[1..n -> ArgAtoms] : n \in 0..MaxArgs}

\* Provider names a request may carry: absent, empty, entries of the table, a
\* name no table has, a name only the prototype chain resolves, and values
\* that are not strings.
ProviderInputs ==
  {Undef, Null, Str(""), Str("foo"), Str("util"), Str("bar"), Str("toString"),
   Num("5"), Arr(<<Str("foo")>>)}

ProcedureInputs ==
  {Undef, Null, Str(""), Num("5"), Arr(<<Str("getFoo")>>)}
  \cup {Str(m) : m \in {"getFoo", "setFoo", "collect", "echo", "nothing", "later", "fail",
                        "failCause", "failBigCause", "failRouting", "failString", "reject",
                        "label", "empty",
                        "zero", "one", "flag", "nul", "missing", "toString", "call",
                        "name", "length"}}

\* Argument values a request may carry: absent, lists, and values that are
\* not lists.
ArgsInputs ==
  {Undef, Null, Num("0"), Num("5"), Bool("true"), Str(""), Str("ab"), Obj(<<>>, <<>>)}
  \cup {Arr(a) : a \in ArgLists}

\* Request bodies: texts that are not JSON, JSON values that are not objects,
\* and objects carrying the procedure name under the key `method` or under
\* the key `procedure`; an absent value is an absent key.
Bodies ==
  {BadText, Undef, JsonText(Null), JsonText(Num("5")), JsonText(Str("foo"))}
  \cup {JsonText(ToJson(Obj(<<"provider", key, "args">>, <<p, m, a>>))) :
          key \in {"method", "procedure"},
          p \in {Undef, Str(""), Str("foo"), Str("util"), Str("bar"), Str("toString")},
          m \in {Undef, Str("")}
                \cup {Str(x) : x \in {"getFoo", "setFoo", "collect", "echo", "nothing", "later",
                                      "fail", "failCause", "failBigCause", "failRouting",
                                      "failString",
                                      "reject",
                                      "label", "zero", "missing", "toString"}},
          a \in {Undef, Null, Num("5"), Str("ab"), Obj(<<>>, <<>>)}
                \cup {Arr(x) : x \in ArgLists}}

\* How the transport-send operation of a client may settle.
TransportOutcomes ==
  {[k |-> "resolve", val |-> v] : v \in {Undef, Str("Foo"), Num("7"), Arr(<<Str("a")>>),
        Obj(<<"name", "error">>, <<Str("Error"), Str("Provider with name bar not found")>>)}}
  \cup {[k |-> "reject", val |-> e] : e \in {Err("TypeError", "fetch failed", Undef),
        Err("SyntaxError", "Unexpected end of JSON input", Undef), Str("oops")}}

----------------------------------------------------------------------------
(* The state machine *)

Idle == [stage |-> "idle"]

Pending == [k |-> "pending"]

\* Nothing was thrown.
Nothing == [t |-> "none"]

\* The number of requests one router handles at a time.
MaxInFlight == 2

Slots == 1..MaxInFlight

\* No request occupies the slot.
Free == [stage |-> "free"]

Init ==
  /\ providers \in Tables
  /\ foo = Str("Foo")
  /\ call = Idle
  /\ http = Idle
  /\ client = Idle
  /\ lastSet = Str("Foo")
  /\ log = <<>>
  /\ reqs = [i \in Slots |-> Free]

\* No operation is under way: the caller of the model starts one at a time.
Quiescent == call = Idle /\ http = Idle /\ client = Idle

\* The state of a call of invoke that has run up to its await: a throw has
\* rejected its promise, anything else is awaited.
Started(via, provider, procedure, args, r) ==
  [stage |-> IF r.thrown THEN "settled" ELSE "awaiting", via |-> via,
   provider |-> provider, procedure |-> procedure, args |-> args,
   before |-> foo, run |-> r,
   result |-> IF r.thrown THEN [k |-> "reject", val |-> r.val] ELSE Pending]

\* A caller calls invoke(provider, procedure, args): the body runs to its await.
InvokeCall(provider, procedure, args) ==
  /\ Quiescent
  /\ LET r == invoke(providers, provider, procedure, args, foo)
     IN  /\ call' = Started("caller", provider, procedure, args, r)
         /\ foo' = r.foo
  /\ UNCHANGED <<providers, http, client, lastSet>>
  /\ UNCHANGED aux

\* The argument of the call of setFoo that an invoke made, if it made one:
\* lastSet records it when the invoke completes.
SetFooArgument(run, last) ==
  IF run.invoked # <<>> /\ run.invoked[1].fn = Fn("setFoo")
  THEN Arg(run.invoked[1].args, 1)
  ELSE last

\* The awaited result of the procedure settles, and with it the promise of invoke.
InvokeSettle ==
  /\ call.stage = "awaiting"
  /\ call' = [call EXCEPT !.stage = "settled", !.result = Await(call.run.val)]
  /\ lastSet' = SetFooArgument(call.run, lastSet)
  /\ UNCHANGED <<providers, foo, http, client>>
  /\ UNCHANGED aux

\* HttpRpcRouter.handle(request) is called: it awaits request.json().
handle(body) ==
  /\ Quiescent
  /\ http' = [stage |-> "parsing", body |-> body, caught |-> Nothing, outcome |-> Pending]
  /\ UNCHANGED <<providers, foo, call, client, lastSet>>
  /\ UNCHANGED aux

\* The body is read: a failure to parse or to destructure goes to the catch
\* block, anything else starts invoke.  caught records what the catch block
\* received.
handleParsed ==
  /\ http.stage = "parsing"
  /\ LET parsed == JSONparse(http.body)
         d == Destructure(parsed.val)
     IN  IF parsed.k = "throw"
         THEN /\ http' = [http EXCEPT !.stage = "responded", !.caught = parsed.val,
                                       !.outcome = Catch(parsed.val)]
              /\ UNCHANGED <<call, foo>>
         ELSE IF d.k = "throw"
         THEN /\ http' = [http EXCEPT !.stage = "responded", !.caught = d.val,
                                       !.outcome = Catch(d.val)]
              /\ UNCHANGED <<call, foo>>
         ELSE LET r == invoke(providers, d.provider, d.method, d.args, foo)
              IN  /\ call' = Started("handle", d.provider, d.method, d.args, r)
                  /\ foo' = r.foo
                  /\ http' = [http EXCEPT !.stage = "invoking"]
  /\ UNCHANGED <<providers, client, lastSet>>
  /\ UNCHANGED aux

\* invoke has settled: its result is serialized, its failure goes to the catch
\* block.
handleRespond ==
  /\ http.stage = "invoking"
  /\ call.stage = "settled"
  /\ http' = [http EXCEPT !.stage = "responded",
                          !.caught = IF call.result.k = "reject" THEN call.result.val
                                     ELSE IF JSONstringify(call.result.val).k = "throw"
                                     THEN JSONstringify(call.result.val).val
                                     ELSE Nothing,
                          !.outcome = IF call.result.k = "resolve"
                                      THEN Success(call.result.val)
                                      ELSE Catch(call.result.val)]
  /\ UNCHANGED <<providers, foo, call, client, lastSet>>
  /\ UNCHANGED aux

\* client.get(provider)[method](...args): the callable calls this.handle.
ProjectedCall(provider, method, args) ==
  /\ Quiescent
  /\ client' = [stage |-> "pending", provider |-> provider, method |-> method,
                args |-> args, sent |-> <<get(provider, method, args)>>,
                transport |-> "abstract", handled |-> Pending, result |-> Pending]
  /\ UNCHANGED <<providers, foo, call, http, lastSet>>
  /\ UNCHANGED aux

\* The promise of the transport-send operation settles, and with it the one the
\* callable returned.
TransportSettle(outcome) ==
  /\ client.stage = "pending"
  /\ client.transport = "abstract"
  /\ client' = [client EXCEPT !.stage = "settled", !.handled = outcome,
                              !.result = Forward(outcome)]
  /\ UNCHANGED <<providers, foo, call, http, lastSet>>
  /\ UNCHANGED aux

\* client.get(provider)[method](...args) on an HttpRpcClient: the callable calls
\* handle, which posts the request; the server of src/server/main.ts passes it
\* to router.handle.
RemoteCall(provider, method, args) ==
  /\ Quiescent
  /\ client' = [stage |-> "pending", provider |-> provider, method |-> method,
                args |-> args, sent |-> <<get(provider, method, args)>>,
                transport |-> "http", handled |-> Pending, result |-> Pending]
  /\ http' = [stage |-> "parsing", body |-> RequestBody(get(provider, method, args)),
              caught |-> Nothing, outcome |-> Pending]
  /\ UNCHANGED <<providers, foo, call, lastSet>>
  /\ UNCHANGED aux

\* The response arrives: handle returns result.json(), and the promise the
\* callable returned settles with it.
FetchSettle ==
  /\ client.stage = "pending"
  /\ client.transport = "http"
  /\ http.stage = "responded"
  /\ client' = [client EXCEPT !.stage = "settled", !.handled = ResultJson(http.outcome),
                              !.result = Forward(ResultJson(http.outcome))]
  /\ UNCHANGED <<providers, foo, call, http, lastSet>>
  /\ UNCHANGED aux

\* The caller takes the settled result (the .then callbacks of server/foo.ts,
\* Deno.serve sending the response) and the operation is over.
Done ==
  /\ \/ call.stage = "settled" /\ http = Idle
     \/ http.stage = "responded" /\ client = Idle
     \/ client.stage = "settled"
  /\ call' = Idle
  /\ http' = Idle
  /\ client' = Idle
  /\ UNCHANGED <<providers, foo, lastSet>>
  /\ UNCHANGED aux

\* The calls of invoke the model makes.
InvokeCalls ==
  /\ Quiescent
  /\ \E p \in ProviderInputs, m \in ProcedureInputs, a \in ArgsInputs : InvokeCall(p, m, a)

\* The requests the model sends to handle.
Requests == Quiescent /\ \E body \in Bodies : handle(body)

\* The projected calls the model makes.
ProjectedCalls ==
  /\ Quiescent
  /\ \E p \in {"foo", "bar"}, m \in {"getFoo", "setFoo", "missing", "then"}, a \in ArgLists :
        ProjectedCall(p, m, a)

TransportSettles ==
  /\ client.stage = "pending"
  /\ \E outcome \in TransportOutcomes : TransportSettle(outcome)

\* The calls the model makes through an HttpRpcClient.
RemoteCalls ==
  /\ Quiescent
  /\ \E p \in {"foo", "util", "bar"}, m \in {"getFoo", "setFoo", "echo", "fail", "missing"},
        a \in ArgLists : RemoteCall(p, m, a)

----------------------------------------------------------------------------
(* The client alone: several projections, several calls under way *)

\* The number of calls the client makes.
MaxCalls == 2

\* The projections the caller holds: get("foo") twice, and get("bar").
Projections == <<"foo", "foo", "bar">>

\* The callable obtained by the access-th read of the property method of the
\* projection proj is called with args: it calls handle, and log records the
\* call with the promise handle returned.
ClientCall(proj, access, method, args) ==
  /\ Len(log) < MaxCalls
  /\ log' = Append(log, [proj |-> proj, access |-> access, method |-> method, args |-> args,
                         issued |-> get(Projections[proj], method, args),
                         outcome |-> Pending])
  /\ UNCHANGED <<providers, foo, call, http, client, lastSet, reqs>>

\* The promise of the j-th call of handle settles, in any order with the others.
ClientSettle(j, outcome) ==
  /\ j \in 1..Len(log)
  /\ log[j].outcome = Pending
  /\ log' = [log EXCEPT ![j].outcome = outcome]
  /\ UNCHANGED <<providers, foo, call, http, client, lastSet, reqs>>

ClientCalls ==
  \E proj \in 1..Len(Projections), access \in 1..2, m \in {"getFoo", "then"},
     a \in {<<>>, <<Str("a")>>} : ClientCall(proj, access, m, a)

ClientSettles ==
  \E j \in 1..MaxCalls :
    \E outcome \in {[k |-> "resolve", val |-> Str("Foo")],
                    [k |-> "reject", val |-> Err("TypeError", "fetch failed", Undef)]} :
      ClientSettle(j, outcome)

NextClient ==
  \/ ClientCalls
  \/ ClientSettles

SpecClient == Init /\ [][NextClient]_vars

----------------------------------------------------------------------------
(* One HttpRpcRouter, overlapping requests *)

\* The body {provider, method, args} of a request.
Body(provider, method, args) ==
  JsonText(Obj(<<"provider", "method", "args">>, <<Str(provider), Str(method), Arr(args)>>))

\* The requests sent to the server while others are in flight.
ConcBodies ==
  {BadText,
   Body("foo", "getFoo", <<>>), Body("foo", "setFoo", <<Str("a")>>),
   Body("foo", "setFoo", <<Num("7")>>), Body("bar", "getFoo", <<>>),
   Body("util", "later", <<Str("a")>>), Body("util", "reject", <<>>),
   Body("util", "failBigCause", <<>>)}

\* The server passes a request to router.handle, which awaits request.json().
\* answers counts the settlements of the promise of handle for the request.
Receive(i, body) ==
  /\ reqs[i] = Free
  /\ reqs' = [reqs EXCEPT ![i] = [stage |-> "parsing", body |-> body, before |-> Nothing,
                                   run |-> Nothing, result |-> Pending,
                                   outcome |-> Pending, answers |-> 0]]
  /\ UNCHANGED <<providers, foo, call, http, client, lastSet, log>>

\* The body of request i is read: a failure goes to the catch block, anything
\* else starts invoke, which runs to its await on the variable as it is now.
Parse(i) ==
  /\ reqs[i].stage = "parsing"
  /\ LET parsed == JSONparse(reqs[i].body)
         d == Destructure(parsed.val)
     IN  IF parsed.k = "throw"
         THEN /\ reqs' = [reqs EXCEPT ![i].stage = "responded",
                                       ![i].outcome = Catch(parsed.val), ![i].answers = 1]
              /\ UNCHANGED foo
         ELSE IF d.k = "throw"
         THEN /\ reqs' = [reqs EXCEPT ![i].stage = "responded",
                                       ![i].outcome = Catch(d.val), ![i].answers = 1]
              /\ UNCHANGED foo
         ELSE LET r == invoke(providers, d.provider, d.method, d.args, foo)
              IN  /\ reqs' = [reqs EXCEPT ![i].stage = IF r.thrown THEN "settled" ELSE "awaiting",
                                           ![i].before = foo, ![i].run = r,
                                           ![i].result = IF r.thrown
                                                         THEN [k |-> "reject", val |-> r.val]
                                                         ELSE Pending]
                  /\ foo' = r.foo
  /\ UNCHANGED <<providers, call, http, client, lastSet, log>>

\* The awaited result of the procedure of request i settles.
Settle(i) ==
  /\ reqs[i].stage = "awaiting"
  /\ reqs' = [reqs EXCEPT ![i].stage = "settled", ![i].result = Await(reqs[i].run.val)]
  /\ UNCHANGED <<providers, foo, call, http, client, lastSet, log>>

\* invoke has settled for request i: handle serializes the result or runs its
\* catch block.
Respond(i) ==
  /\ reqs[i].stage = "settled"
  /\ reqs' = [reqs EXCEPT ![i].stage = "responded",
                          ![i].outcome = IF reqs[i].result.k = "resolve"
                                         THEN Success(reqs[i].result.val)
                                         ELSE Catch(reqs[i].result.val),
                          ![i].answers = reqs[i].answers + 1]
  /\ UNCHANGED <<providers, foo, call, http, client, lastSet, log>>

\* The server has sent the answer; the connection takes the next request.
Close(i) ==
  /\ reqs[i].stage = "responded"
  /\ reqs' = [reqs EXCEPT ![i] = Free]
  /\ UNCHANGED <<providers, foo, call, http, client, lastSet, log>>

Receives == \E i \in Slots, body \in ConcBodies : Receive(i, body)

Parses == \E i \in Slots : Parse(i)

Settles == \E i \in Slots : Settle(i)

Responds == \E i \in Slots : Respond(i)

Closes == \E i \in Slots : Close(i)

NextConc ==
  \/ Receives
  \/ Parses
  \/ Settles
  \/ Responds
  \/ Closes

\* The event loop runs the continuation of every await whose promise has
\* settled: Parse(i) and Respond(i) are weakly fair, WF_vars(Parse(i)) and
\* WF_vars(Respond(i)) written out with the stage at which each is enabled.
\* Whether the promise of a procedure settles is up to the procedure.
EventLoopRuns(i) ==
  /\ []<>(reqs[i].stage # "parsing") \/ []<><<Parse(i)>>_vars
  /\ []<>(reqs[i].stage # "settled") \/ []<><<Respond(i)>>_vars

SpecConc ==
  /\ Init
  /\ [][NextConc]_vars
  /\ \A i \in Slots : EventLoopRuns(i)

Next ==
  \/ InvokeCalls
  \/ InvokeSettle
  \/ Requests
  \/ handleParsed
  \/ handleRespond
  \/ ProjectedCalls
  \/ TransportSettles
  \/ RemoteCalls
  \/ FetchSettle
  \/ Done

Spec == Init /\ [][Next]_vars

----------------------------------------------------------------------------
(* The claims about RpcRouter.invoke.  They are stated on a settled call of *)
(* invoke, made by a caller or by handle: call holds its inputs, the value  *)
(* of foo before it, what it did and how its promise settled.               *)

Settled == call.stage = "settled"

\* The provider name is a string and a key of the provider table.
ProviderIsKey == call.provider.t = "string" /\ HasOwn(providers, call.provider.v)

\* P[n], for a provider name that is a key.
TheProvider == OwnGet(providers, call.provider.v)

\* The procedure name is a string and a key of the provider.
ProcedureIsKey ==
  ProviderIsKey /\ call.procedure.t = "string" /\ HasOwn(TheProvider, call.procedure.v)

\* P[n][m], for names that are keys.
TheEntry == OwnGet(TheProvider, call.procedure.v)

\* The name is a non-empty string.
IsName(x) == x.t = "string" /\ x.v # ""

IsRoutingError(x, msg) == x = [t |-> "error", c |-> "RpcRoutingError", v |-> msg, cause |-> Undef]

RejectedWith(msg) == call.result.k = "reject" /\ IsRoutingError(call.result.val, msg)

\* C1: for a provider name n that is a key of the table, a procedure name m
\* that is a key of P[n] with a function as entry, and an argument list args,
\* invoke(n, m, args) calls P[n][m] with the elements of args in their order
\* and, when that call returns, resolves with the value it returned (awaited).
C1_InvokeReturnsResult ==
  (Settled /\ ProcedureIsKey /\ TheEntry.t = "function" /\ call.args.t = "array") =>
    LET c == Call(TheEntry, TheProvider, call.args.e, call.before)
        awaited == IF c.val.t = "promise" THEN c.val.e[1] ELSE c.val
    IN  /\ call.run.invoked = <<[fn |-> TheEntry, args |-> call.args.e]>>
        /\ (c.k = "return" /\ (c.val.t = "promise" => c.val.s = "fulfilled"))
             => call.result = [k |-> "resolve", val |-> awaited]

\* A settled invoke("util", "collect", ["a", 7]) that resolved with ["a", 7].
C1_Witness ==
  /\ Settled
  /\ call.provider = Str("util") /\ call.procedure = Str("collect")
  /\ call.args = Arr(<<Str("a"), Num("7")>>)
  /\ call.result = [k |-> "resolve", val |-> Arr(<<Str("a"), Num("7")>>)]

\* C2: for a provider name n that is not a key of the table, with a non-empty
\* procedure name and an argument list, invoke(n, m, args) rejects with the
\* RoutingError "Provider with name n not found" and invokes no procedure.
C2_UnknownProviderNotFound ==
  (Settled /\ IsName(call.provider) /\ ~ProviderIsKey /\ IsName(call.procedure)
           /\ call.args.t = "array") =>
    /\ RejectedWith("Provider with name " \o call.provider.v \o " not found")
    /\ call.run.invoked = <<>>

\* C3: for a provider name n that is a key and a procedure name m that is not
\* a key of P[n], invoke(n, m, args) rejects with the RoutingError "Procedure m
\* not found on provider n" and invokes no procedure.
C3_UnknownProcedureNotFound ==
  (Settled /\ ProviderIsKey /\ IsName(call.procedure) /\ ~ProcedureIsKey
           /\ call.args.t = "array") =>
    /\ RejectedWith("Procedure " \o call.procedure.v \o " not found on provider "
                    \o call.provider.v)
    /\ call.run.invoked = <<>>

\* C4: when P[n] has an entry m that is not a function, invoke(n, m, args)
\* rejects with the RoutingError "Property m is not a function on provider n so
\* it cannot be called", not with the "not found" one.
C4_NonFunctionNotAFunction ==
  (Settled /\ ProcedureIsKey /\ TheEntry.t # "function" /\ call.args.t = "array") =>
    RejectedWith("Property " \o call.procedure.v \o " is not a function on provider "
                 \o call.provider.v \o " so it cannot be called")

\* A name or an argument value that is absent.
Absent(x) == x.t \in {"undefined", "null"}

\* C5: when the provider name or the procedure name is empty or absent, or
\* args is absent, invoke rejects with the RoutingError "Invalid request: ..."
\* without a lookup on the provider table and without invoking a procedure; an
\* empty args list with valid names is not rejected by this check.
C5_InvalidRequestFirst ==
  Settled =>
    /\ (Absent(call.provider) \/ call.provider = Str("") \/ Absent(call.procedure)
          \/ call.procedure = Str("") \/ Absent(call.args)) =>
         /\ RejectedWith("Invalid request: provider=" \o ToStr(call.provider)
                         \o ", procedure=" \o ToStr(call.procedure)
                         \o ", args=" \o ToStr(call.args))
         /\ call.run.reads = 0
         /\ call.run.invoked = <<>>
    /\ (IsName(call.provider) /\ IsName(call.procedure) /\ call.args = Arr(<<>>)) =>
         /\ call.run.reads >= 1
         /\ ~RejectedWith("Invalid request: provider=" \o call.provider.v
                          \o ", procedure=" \o call.procedure.v \o ", args=")

\* A settled invoke("foo", "getFoo", undefined), rejected before any lookup.
C5_Witness ==
  /\ Settled
  /\ call.provider = Str("foo") /\ call.procedure = Str("getFoo") /\ call.args = Undef
  /\ call.result.k = "reject"
  /\ call.run.reads = 0

\* C6: a request whose args is defined but is no list (a number, a boolean, a
\* plain object, a string), or whose provider or procedure is no string, is
\* rejected with a RoutingError: no procedure is invoked and no other kind of
\* error arises.
C6_OnlyListsAndStrings ==
  (Settled /\ ~Absent(call.provider) /\ ~Absent(call.procedure) /\ ~Absent(call.args)
           /\ (call.args.t # "array" \/ call.provider.t # "string"
                 \/ call.procedure.t # "string")) =>
    /\ call.result.k = "reject"
    /\ call.result.val.t = "error" /\ call.result.val.c = "RpcRoutingError"
    /\ call.run.invoked = <<>>

\* The completion of the one procedure call a settled invoke made.
TheCompletion ==
  Call(call.run.invoked[1].fn, Get(providers, ToStr(call.provider)),
       call.run.invoked[1].args, call.before)

\* C7: if the procedure invoke called throws e, or returns a promise that
\* rejects with e, invoke rejects with e itself: not wrapped, not replaced by
\* a RoutingError, not turned into a success.
C7_ProcedureErrorPropagates ==
  (Settled /\ Len(call.run.invoked) = 1) =>
    /\ TheCompletion.k = "throw" => call.result = [k |-> "reject", val |-> TheCompletion.val]
    /\ (TheCompletion.k = "return" /\ TheCompletion.val.t = "promise"
          /\ TheCompletion.val.s = "rejected")
         => call.result = [k |-> "reject", val |-> TheCompletion.val.e[1]]

\* A settled invoke("util", "reject", []): the procedure's promise rejected
\* with an Error and invoke rejected with it.
C7_Witness ==
  /\ Settled
  /\ call.provider = Str("util") /\ call.procedure = Str("reject")
  /\ Len(call.run.invoked) = 1
  /\ call.result = [k |-> "reject", val |-> Err("Error", "late", Undef)]

\* The four checks of invoke passed: names and args are truthy, the provider
\* and the procedure resolve, the procedure is a function.
ChecksPass ==
  /\ ToBoolean(call.provider) /\ ToBoolean(call.procedure) /\ ToBoolean(call.args)
  /\ ToBoolean(Get(providers, ToStr(call.provider)))
  /\ TypeOf(Get(Get(providers, ToStr(call.provider)), ToStr(call.procedure))) = "function"

\* C8: a call of invoke invokes at most one procedure, at most once: exactly
\* once when the four checks pass, never when one of them raises its
\* RoutingError, and not again after the procedure failed.
C8_ExactlyOneInvocation ==
  (call.stage # "idle") =>
    /\ Len(call.run.invoked) <= 1
    /\ ChecksPass => Len(call.run.invoked) = 1
    /\ call.run.origin = "validation" => call.run.invoked = <<>>

----------------------------------------------------------------------------
(* The claims about HttpRpcRouter.handle and RpcClient.get *)

Responded == http.stage = "responded"

\* The response handle resolved with has this status and this body.
Answered(status, body) == http.outcome = [k |-> "response", status |-> status, body |-> body]

\* C9: handle answers a successful invoke with status 200 and the serialized
\* result as body, a thrown RpcRoutingError with status 400 and the body
\* {name, error}, any other thrown Error with status 500 and the body
\* {name, error, stack, cause}, and a thrown value that is no Error with status
\* 500 and the body {error: "Unknown Internal Server error of type: <typeof>"}.
C9_StatusMapping ==
  Responded =>
    LET e == http.caught
    IN  /\ (call.stage = "settled" /\ call.result.k = "resolve") =>
             Answered(200, IF call.result.val.t \in {"undefined", "function"} THEN Undef
                           ELSE JsonText(ToJson(call.result.val)))
        /\ (call.stage = "settled" /\ call.result.k = "reject") => e = call.result.val
        /\ (e.t = "error" /\ e.c = "RpcRoutingError") =>
             Answered(400, JsonText(Obj(<<"name", "error">>, <<Str("Error"), Str(e.v)>>)))
        /\ (e.t = "error" /\ e.c # "RpcRoutingError") =>
             Answered(500, JsonText(ToJson(Obj(<<"name", "error", "stack", "cause">>,
                                               <<Str(e.c), Str(e.v), Str(ErrStack(e)), e.cause>>))))
        /\ e.t \notin {"error", "none"} =>
             Answered(500, JsonText(Obj(<<"error">>,
                        <<Str("Unknown Internal Server error of type: " \o TypeOf(e))>>)))

\* A request for an unknown provider, answered with status 400.
C9_Witness ==
  /\ Responded
  /\ call.stage = "settled" /\ call.provider = Str("bar")
  /\ Answered(400, JsonText(Obj(<<"name", "error">>,
                                <<Str("Error"), Str("Provider with name bar not found")>>)))

\* C10: calling the property m of get(n) with args calls handle exactly once,
\* with (n, m, args), and the promise the call returns settles as the promise
\* of handle does, for every property name.
C10_ProjectionDelegates ==
  (client.stage # "idle") =>
    /\ client.sent = <<[provider |-> client.provider, procedure |-> client.method,
                        args |-> client.args]>>
    /\ client.stage = "settled" =>
         /\ client.transport = "abstract" => client.handled \in TransportOutcomes
         /\ client.result = client.handled

\* A settled call of get("foo").missing("a", 7) whose transport rejected.
C10_Witness ==
  /\ client.stage = "settled"
  /\ client.sent = <<[provider |-> "foo", procedure |-> "missing",
                      args |-> <<Str("a"), Num("7")>>]>>
  /\ client.result = [k |-> "reject", val |-> Err("TypeError", "fetch failed", Undef)]

----------------------------------------------------------------------------
(* The claims about a call through HttpRpcClient and HttpRpcRouter *)

\* A call through an HttpRpcClient has settled.
RemoteSettled == client.stage = "settled" /\ client.transport = "http"

\* C11: with { echo: (x) => x } under the provider name util, a call of
\* client.get("util").echo(v) through HttpRpcClient and HttpRpcRouter reaches
\* echo with the argument v and resolves with v.
C11_EchoRoundTrip ==
  (RemoteSettled /\ HasOwn(providers, "util") /\ client.provider = "util"
                 /\ client.method = "echo" /\ Len(client.args) = 1) =>
    /\ call.stage = "settled"
    /\ call.run.invoked = <<[fn |-> Fn("echo"), args |-> client.args]>>
    /\ client.result = [k |-> "resolve", val |-> ToJson(client.args[1])]

\* C12: when the server answers a call with status 400 or 500, the promise of
\* HttpRpcClient.handle, and with it the one the callable returned, rejects
\* with a failure carrying a name and a message; it does not resolve with the
\* error payload.
C12_FailureResponseRejects ==
  (RemoteSettled /\ http.outcome.k = "response" /\ http.outcome.status \in {400, 500}) =>
    /\ client.result.k = "reject"
    /\ client.result.val.t = "error"

----------------------------------------------------------------------------
(* The example provider: getFoo and setFoo over one variable *)

\* The call of invoke under way or just settled has these fields.
CallIs(provider, procedure) ==
  call.provider = Str(provider) /\ call.procedure = Str(procedure) /\ call.args.t = "array"

\* C13: with the example provider under the name foo and its variable starting
\* as "Foo", a completed invoke("foo", "getFoo", []) returns the argument of
\* the most recently completed invoke of setFoo, or "Foo" if there was none; a
\* completed invoke("foo", "setFoo", [v]) returns v; an invoke that fails
\* with a RoutingError and an invoke of getFoo leave the variable as it was;
\* and between calls the variable holds the argument of the last setFoo.
C13_GetFooReturnsLastSet ==
  /\ (Settled /\ CallIs("foo", "getFoo")) =>
        /\ call.result = [k |-> "resolve", val |-> lastSet]
        /\ foo = call.before
  /\ (Settled /\ CallIs("foo", "setFoo") /\ Len(call.args.e) = 1) =>
        /\ call.result = [k |-> "resolve", val |-> call.args.e[1]]
        /\ lastSet = call.args.e[1]
  /\ (Settled /\ call.result.k = "reject" /\ call.result.val.t = "error"
               /\ call.result.val.c = "RpcRoutingError") =>
        foo = call.before
  /\ Quiescent => foo = lastSet

\* A getFoo that returned "a" after a setFoo("a") had completed: the variable
\* no longer holds its first value.
C13_Witness ==
  /\ Settled /\ CallIs("foo", "getFoo")
  /\ call.before = Str("a")
  /\ call.result = [k |-> "resolve", val |-> Str("a")]

----------------------------------------------------------------------------
(* The client keeps no state *)

\* C14: every call of a callable issues exactly handle(n, m, args), with n the
\* name its projection was made for, m the property read and args the
\* arguments of the call, whichever projection of n and whichever read of the
\* property made the callable and whatever calls were made before and however
\* they settled; two calls with the same n, m and args issue the same call.
C14_ProjectionKeepsNoState ==
  /\ \A j \in 1..Len(log) :
        log[j].issued = [provider |-> Projections[log[j].proj],
                         procedure |-> log[j].method, args |-> log[j].args]
  /\ \A i, j \in 1..Len(log) :
        (/\ Projections[log[i].proj] = Projections[log[j].proj]
         /\ log[i].method = log[j].method
         /\ log[i].args = log[j].args) => log[i].issued = log[j].issued

\* After a call of then() on the first projection of foo was rejected, a call
\* of getFoo("a") on the second one issued handle("foo", "getFoo", ["a"]).
C14_Witness ==
  /\ Len(log) = 2
  /\ log[1].proj = 1 /\ log[1].method = "then" /\ log[1].outcome.k = "reject"
  /\ log[2].proj = 2 /\ log[2].access = 2
  /\ log[2].issued = [provider |-> "foo", procedure |-> "getFoo", args |-> <<Str("a")>>]

----------------------------------------------------------------------------
(* How handle classifies failures and what it passes to invoke *)

\* handle has resolved with a response of this status.
Status(status) == http.outcome.k = "response" /\ http.outcome.status = status

\* C15: a failure of the procedure invoke called is answered with status 500,
\* whatever value the procedure threw or rejected with, an RpcRoutingError
\* included; status 400 is given only when a check of invoke refused the
\* request.
C15_ClassifiedByOrigin ==
  (Responded /\ call.stage = "settled" /\ call.result.k = "reject") =>
    /\ call.run.invoked # <<>> => Status(500)
    /\ Status(400) => call.run.origin = "validation"

\* The field of the request body under this key: absent when the body is no
\* JSON text or denotes null.
Field(key) ==
  LET parsed == JSONparse(http.body)
  IN  IF parsed.k = "throw" \/ parsed.val.t \in {"null", "undefined"} THEN Undef
      ELSE Get(parsed.val, key)

\* C16: before handle answers a request it has called invoke exactly once, with
\* the provider, procedure and args fields of the parsed body, for every body:
\* one that is not JSON, one that denotes null, a number or a string, an object
\* with fields missing; and a request with a missing or empty field is
\* answered with status 400.
C16_OneInvokePerRequest ==
  Responded =>
    /\ call.stage = "settled"
    /\ call.via = "handle"
    /\ call.provider = Field("provider")
    /\ call.procedure = Field("procedure")
    /\ call.args = Field("args")
    /\ (\E key \in {"provider", "procedure", "args"} : ~ToBoolean(Field(key))) => Status(400)

----------------------------------------------------------------------------
(* Overlapping requests *)

\* What handle answers to a request with this body that runs alone, its
\* procedure running on the variable f.
Alone(body, f) ==
  LET parsed == JSONparse(body)
      d == Destructure(parsed.val)
      r == invoke(providers, d.provider, d.method, d.args, f)
      result == IF r.thrown THEN [k |-> "reject", val |-> r.val] ELSE Await(r.val)
  IN  IF parsed.k = "throw" THEN Catch(parsed.val)
      ELSE IF d.k = "throw" THEN Catch(d.val)
      ELSE IF result.k = "resolve" THEN Success(result.val)
      ELSE Catch(result.val)

\* C17: under every interleaving of overlapping requests to one router, the
\* promise of handle settles at most once for a request and, once it has,
\* it resolved with a response (it never rejects) whose status is 200, 400 or
\* 500 and which is what the request alone gives on the provider's variable
\* as it was when its procedure ran, whatever the other requests in flight
\* are and in whatever order they complete.
C17_EveryRequestAnswered ==
  \A i \in Slots :
    /\ reqs[i].stage # "free" => reqs[i].answers <= 1
    /\ reqs[i].stage = "responded" =>
          /\ reqs[i].answers = 1
          /\ reqs[i].outcome.k = "response"
          /\ reqs[i].outcome.status \in {200, 400, 500}
          /\ reqs[i].outcome = Alone(reqs[i].body, reqs[i].before)

\* A request whose procedure has settled is answered.
SettledIsAnswered ==
  \A i \in Slots : (reqs[i].stage = "settled") ~> (reqs[i].stage = "responded")

====
